---- MODULE Spec2Model ----
(***************************************************************************)
(* Model of terraform-assessment/docker/my_flow.py: a Prefect task `yes`,  *)
(* a subflow `no`, the top-level flow `hello_flow`, and the module-level   *)
(* `if __name__ == "__main__"` guard that calls hello_flow.deploy(...).    *)
(*                                                                         *)
(* One Python process is modelled.  It executes the module top to bottom   *)
(* (pc); when the module was imported (modname # "__main__") the importer  *)
(* may afterwards call hello_flow, yes and no.  hello_flow is split at its *)
(* source lines because line 68 blocks on the platform's task run.         *)
(* The external platform is the environment: it runs or crashes the        *)
(* submitted task, and it may raise from submit() and from deploy().       *)
(***************************************************************************)
EXTENDS Integers, Sequences, FiniteSets, TLC

VARIABLES
    modname,      \* value of __name__ in this process
    pc,           \* module-level position: "import", "guard", "deploy", "end", "error"
    deployCalls,  \* keyword arguments of every hello_flow.deploy call, in order
    exc,          \* exception that left the module and reached the script's caller
    raised,       \* last error raised by the external platform
    console,      \* lines written to stdout, in order
    fpc,          \* position inside hello_flow: "idle","l67","l68","l71","l72","done","failed"
    mark,         \* Len(console) when the current hello_flow invocation started
    futState,     \* state of the future result_yes: "NONE","PENDING","COMPLETED","FAILED"
    futValue,     \* value (or exception) held by the future result_yes
    result_no,    \* local variable result_no of hello_flow
    ret,          \* value hello_flow returned to its caller ("unset" until it returns)
    flowExc,      \* exception that ended the current hello_flow invocation
    failedAt,     \* the line of hello_flow that raised: "submit", "result" or "none"
    runs,         \* number of hello_flow invocations so far
    submits,      \* yes.submit() calls issued by the current invocation
    subflows,     \* no() calls issued by the current invocation
    yesCalls,     \* direct calls of yes by the importer
    yesRet,       \* value returned by the last execution of the body of yes
    noCalls,      \* direct calls of no by the importer
    noRet         \* value returned by the last direct call of no

vars == <<modname, pc, deployCalls, exc, raised, console, fpc, mark, futState,
          futValue, result_no, ret, flowExc, failedAt, runs, submits, subflows,
          yesCalls, yesRet, noCalls, noRet>>

modvars == <<modname, pc, deployCalls, exc>>
flowvars == <<fpc, mark, futState, futValue, result_no, ret, flowExc, failedAt,
              runs, submits, subflows>>
callvars == <<yesCalls, yesRet, noCalls, noRet>>

\* Bounds of the model.
MaxRuns == 2
MaxCalls == 2

\* Values __name__ can take: run as a script, or imported under its module name.
ModNames == {"__main__", "my_flow"}

\* Errors the platform client can raise (network, authentication, missing object).
PlatformErrors == {"ConnectError", "Unauthorized", "ObjectNotFound"}

(***************************************************************************)
(* print(a, b, ...): the arguments joined by the separator " "; one console *)
(* line per call (the terminating newline ends the line).                  *)
(***************************************************************************)
RECURSIVE join(_, _)
join(args, sep) ==
    IF Len(args) = 0 THEN ""
    ELSE IF Len(args) = 1 THEN args[1]
    ELSE args[1] \o sep \o join(Tail(args), sep)

print_nosep(args) == join(args, "")

print(args) == join(args, " ")

(***************************************************************************)
(* Bodies of the two units: the value returned and the lines printed.      *)
(***************************************************************************)
no_old == [ret |-> "None", out |-> <<print(<<"no">>)>>]

no == [ret |-> "no", out |-> <<>>]

yes_old == [ret |-> "None", out |-> <<print(<<"yes">>)>>]

yes == [ret |-> "yes", out |-> <<>>]

(***************************************************************************)
(* Keyword arguments of the deploy call.                                   *)
(***************************************************************************)
deploy_kwargs_flat ==
    [name |-> "demo-deployment",
     work_pool_name |-> "ecs-work-pool",
     image |-> "882142483262.dkr.ecr.us-east-1.amazonaws.com/prefect-flow:latest"]

deploy_kwargs ==
    [name |-> "demo-deployment",
     work_pool_name |-> "ecs-work-pool",
     job_variables |->
        [image |-> "882142483262.dkr.ecr.us-east-1.amazonaws.com/prefect-flow:latest"]]

Init ==
    /\ modname \in ModNames
    /\ pc = "import"
    /\ deployCalls = <<>>
    /\ exc = "none"
    /\ raised = "none"
    /\ console = <<>>
    /\ fpc = "idle"
    /\ mark = 0
    /\ futState = "NONE"
    /\ futValue = "none"
    /\ result_no = "unset"
    /\ ret = "unset"
    /\ flowExc = "none"
    /\ failedAt = "none"
    /\ runs = 0
    /\ submits = 0
    /\ subflows = 0
    /\ yesCalls = 0
    /\ yesRet = "unset"
    /\ noCalls = 0
    /\ noRet = "unset"

(***************************************************************************)
(* Module level.                                                           *)
(***************************************************************************)
\* Lines 52-72: the import and the three decorated definitions; nothing runs.
module_load ==
    /\ pc = "import"
    /\ pc' = "guard"
    /\ UNCHANGED <<modname, deployCalls, exc, raised, console>>
    /\ UNCHANGED flowvars
    /\ UNCHANGED callvars

main_guard_inverted ==
    /\ pc = "guard"
    /\ pc' = IF modname # "__main__" THEN "deploy" ELSE "end"
    /\ UNCHANGED <<modname, deployCalls, exc, raised, console>>
    /\ UNCHANGED flowvars
    /\ UNCHANGED callvars

\* Line 74: if __name__ == "__main__".
main_guard ==
    /\ pc = "guard"
    /\ pc' = IF modname = "__main__" THEN "deploy" ELSE "end"
    /\ UNCHANGED <<modname, deployCalls, exc, raised, console>>
    /\ UNCHANGED flowvars
    /\ UNCHANGED callvars

deploy_retry ==
    /\ pc = "deploy"
    /\ Len(deployCalls) < 2
    /\ deployCalls' = Append(deployCalls, deploy_kwargs)
    /\ \/ /\ pc' = "end"
          /\ UNCHANGED <<exc, raised>>
       \/ /\ \E e \in PlatformErrors : raised' = e
          /\ pc' = IF Len(deployCalls) = 0 THEN "deploy" ELSE "error"
          /\ exc' = IF Len(deployCalls) = 0 THEN exc ELSE raised'
    /\ UNCHANGED <<modname, console>>
    /\ UNCHANGED flowvars
    /\ UNCHANGED callvars

\* Lines 75-81: hello_flow.deploy(**deploy_kwargs); it returns, or the
\* platform client raises and the error leaves the module (no try/except).
deploy ==
    /\ pc = "deploy"
    /\ deployCalls' = Append(deployCalls, deploy_kwargs)
    /\ \/ /\ pc' = "end"
          /\ UNCHANGED <<exc, raised>>
       \/ /\ \E e \in PlatformErrors : raised' = e
          /\ pc' = "error"
          /\ exc' = raised'
    /\ UNCHANGED <<modname, console>>
    /\ UNCHANGED flowvars
    /\ UNCHANGED callvars

(***************************************************************************)
(* Who may call the module's functions: the module itself never calls      *)
(* hello_flow, yes or no; a process that imported the module may, once the *)
(* module body has finished.  A script run ends at the end of the module.  *)
(***************************************************************************)
callable_at_module_level == pc \in {"guard", "end"}

callable == pc = "end" /\ modname # "__main__"

(***************************************************************************)
(* hello_flow, lines 62-72.                                                *)
(***************************************************************************)
\* Lines 63-64: a call of hello_flow starts and prints the greeting.
hello_flow_enter ==
    /\ callable
    /\ fpc \in {"idle", "done", "failed"}
    /\ runs < MaxRuns
    /\ runs' = runs + 1
    /\ mark' = Len(console)
    /\ console' = Append(console, print(<<"Hello from Prefect Cloud Managed Pool!">>))
    /\ fpc' = "l67"
    /\ futState' = "NONE"
    /\ futValue' = "none"
    /\ result_no' = "unset"
    /\ ret' = "unset"
    /\ flowExc' = "none"
    /\ failedAt' = "none"
    /\ submits' = 0
    /\ subflows' = 0
    /\ UNCHANGED raised
    /\ UNCHANGED modvars
    /\ UNCHANGED callvars

\* Line 67: result_yes = yes.submit(); the platform accepts the task run
\* (the future is pending) or the submission raises and ends the flow.
hello_flow_submit ==
    /\ fpc = "l67"
    /\ submits' = submits + 1
    /\ \/ /\ futState' = "PENDING"
          /\ fpc' = "l68"
          /\ UNCHANGED <<raised, flowExc, failedAt>>
       \/ /\ \E e \in PlatformErrors : raised' = e
          /\ flowExc' = raised'
          /\ failedAt' = "submit"
          /\ fpc' = "failed"
          /\ UNCHANGED futState
    /\ UNCHANGED <<console, mark, futValue, result_no, ret, runs, subflows>>
    /\ UNCHANGED modvars
    /\ UNCHANGED callvars

\* The platform's task runner executes the body of yes (lines 58-60) for the
\* submitted run and resolves the future with the value it returns.
task_run ==
    /\ futState = "PENDING"
    /\ futState' = "COMPLETED"
    /\ futValue' = yes.ret
    /\ yesRet' = yes.ret
    /\ console' = console \o yes.out
    /\ UNCHANGED <<raised, fpc, mark, result_no, ret, flowExc, failedAt, runs,
                   submits, subflows, yesCalls, noCalls, noRet>>
    /\ UNCHANGED modvars

\* The platform fails the submitted run (worker lost, API unreachable): the
\* future holds the error.
task_crash ==
    /\ futState = "PENDING"
    /\ \E e \in PlatformErrors : raised' = e
    /\ futState' = "FAILED"
    /\ futValue' = raised'
    /\ UNCHANGED <<console, fpc, mark, result_no, ret, flowExc, failedAt, runs,
                   submits, subflows>>
    /\ UNCHANGED modvars
    /\ UNCHANGED callvars

hello_flow_result_nowait ==
    /\ fpc = "l68"
    /\ console' = Append(console, print(<<"Task result:", futValue>>))
    /\ fpc' = "l71"
    /\ UNCHANGED <<raised, flowExc, failedAt>>
    /\ UNCHANGED <<mark, futState, futValue, result_no, ret, runs, submits, subflows>>
    /\ UNCHANGED modvars
    /\ UNCHANGED callvars

hello_flow_result_swallow ==
    /\ fpc = "l68"
    /\ futState \in {"COMPLETED", "FAILED"}
    /\ console' = Append(console, print(<<"Task result:", futValue>>))
    /\ fpc' = "l71"
    /\ UNCHANGED <<raised, flowExc, failedAt>>
    /\ UNCHANGED <<mark, futState, futValue, result_no, ret, runs, submits, subflows>>
    /\ UNCHANGED modvars
    /\ UNCHANGED callvars

\* Line 68: print("Task result:", result_yes.result()); result() blocks
\* until the future is resolved, returns its value, or raises its error.
hello_flow_result ==
    /\ fpc = "l68"
    /\ \/ /\ futState = "COMPLETED"
          /\ console' = Append(console, print(<<"Task result:", futValue>>))
          /\ fpc' = "l71"
          /\ UNCHANGED <<flowExc, failedAt>>
       \/ /\ futState = "FAILED"
          /\ flowExc' = futValue
          /\ failedAt' = "result"
          /\ fpc' = "failed"
          /\ UNCHANGED console
    /\ UNCHANGED <<raised, mark, futState, futValue, result_no, ret, runs, submits,
                   subflows>>
    /\ UNCHANGED modvars
    /\ UNCHANGED callvars

\* Line 71: result_no = no(); a direct, synchronous call of the subflow.
hello_flow_subflow ==
    /\ fpc = "l71"
    /\ subflows' = subflows + 1
    /\ result_no' = no.ret
    /\ console' = console \o no.out
    /\ fpc' = "l72"
    /\ UNCHANGED <<raised, mark, futState, futValue, ret, flowExc, failedAt, runs,
                   submits>>
    /\ UNCHANGED modvars
    /\ UNCHANGED callvars

hello_flow_return_value ==
    /\ fpc = "l72"
    /\ console' = Append(console, print(<<"Subflow result:", result_no>>))
    /\ ret' = result_no
    /\ fpc' = "done"
    /\ UNCHANGED <<raised, mark, futState, futValue, result_no, flowExc, failedAt,
                   runs, submits, subflows>>
    /\ UNCHANGED modvars
    /\ UNCHANGED callvars

\* Line 72: print("Subflow result:", result_no); the function body ends, so
\* the call returns None.
hello_flow_return ==
    /\ fpc = "l72"
    /\ console' = Append(console, print(<<"Subflow result:", result_no>>))
    /\ ret' = "None"
    /\ fpc' = "done"
    /\ UNCHANGED <<raised, mark, futState, futValue, result_no, flowExc, failedAt,
                   runs, submits, subflows>>
    /\ UNCHANGED modvars
    /\ UNCHANGED callvars

\* The sequential steps of one hello_flow invocation.
hello_flow ==
    \/ hello_flow_submit
    \/ hello_flow_result
    \/ hello_flow_subflow
    \/ hello_flow_return

(***************************************************************************)
(* Direct calls by an importer, in any state of the flow.                  *)
(***************************************************************************)
\* Lines 58-60: yes() called directly.
call_yes ==
    /\ callable
    /\ yesCalls < MaxCalls
    /\ yesCalls' = yesCalls + 1
    /\ yesRet' = yes.ret
    /\ console' = console \o yes.out
    /\ UNCHANGED <<raised, noCalls, noRet>>
    /\ UNCHANGED modvars
    /\ UNCHANGED flowvars

\* Lines 54-56: no() called directly.
call_no ==
    /\ callable
    /\ noCalls < MaxCalls
    /\ noCalls' = noCalls + 1
    /\ noRet' = no.ret
    /\ console' = console \o no.out
    /\ UNCHANGED <<raised, yesCalls, yesRet>>
    /\ UNCHANGED modvars
    /\ UNCHANGED flowvars

Next ==
    \/ module_load
    \/ main_guard
    \/ deploy
    \/ hello_flow_enter
    \/ hello_flow_submit
    \/ task_run
    \/ task_crash
    \/ hello_flow_result
    \/ hello_flow_subflow
    \/ hello_flow_return
    \/ call_yes
    \/ call_no

Spec == Init /\ [][Next]_vars

\* The interpreter executes hello_flow's lines one after another, and the
\* platform's task runner eventually executes a pending task run.
FairSpec == Spec /\ WF_vars(hello_flow) /\ WF_vars(task_run)

\* The lines printed by the current (or last) hello_flow invocation.
FlowOut == SubSeq(console, mark + 1, Len(console))

Greeting == "Hello from Prefect Cloud Managed Pool!"
ImageRef == "882142483262.dkr.ecr.us-east-1.amazonaws.com/prefect-flow:latest"

(***************************************************************************)
(* C1 (as stated): every hello_flow invocation that runs to completion has *)
(* printed exactly the two lines "Task result: yes" and "Subflow result:   *)
(* no", and nothing else.                                                  *)
(***************************************************************************)
C1_TwoLinesOnly ==
    fpc = "done" => FlowOut = <<"Task result: yes", "Subflow result: no">>

(***************************************************************************)
(* C1 (amended): every hello_flow invocation that runs to completion has   *)
(* printed exactly three lines, the greeting "Hello from Prefect Cloud     *)
(* Managed Pool!", then "Task result: yes", then "Subflow result: no", and *)
(* has made no deployment call.                                            *)
(***************************************************************************)
C1_ThreeLines ==
    fpc = "done" =>
        /\ FlowOut = <<Greeting, "Task result: yes", "Subflow result: no">>
        /\ deployCalls = <<>>

C1_Witness == fpc = "done" /\ runs = 2 /\ Len(console) = 6

(***************************************************************************)
(* C2 (as stated): every configuration handed to the deployment call has   *)
(* exactly the three top-level fields name, work-pool name and image, with *)
(* the literal values.                                                     *)
(***************************************************************************)
C2_ThreeTopLevelFields ==
    \A i \in DOMAIN deployCalls :
        /\ DOMAIN deployCalls[i] = {"name", "work_pool_name", "image"}
        /\ deployCalls[i].name = "demo-deployment"
        /\ deployCalls[i].work_pool_name = "ecs-work-pool"
        /\ deployCalls[i].image = ImageRef

(***************************************************************************)
(* C2 (amended): every configuration handed to the deployment call has     *)
(* exactly the three top-level fields name = "demo-deployment",            *)
(* work_pool_name = "ecs-work-pool" and job_variables, and job_variables   *)
(* holds exactly one entry, image, with the literal image reference.       *)
(***************************************************************************)
C2_Payload ==
    \A i \in DOMAIN deployCalls :
        /\ DOMAIN deployCalls[i] = {"name", "work_pool_name", "job_variables"}
        /\ deployCalls[i].name = "demo-deployment"
        /\ deployCalls[i].work_pool_name = "ecs-work-pool"
        /\ DOMAIN deployCalls[i].job_variables = {"image"}
        /\ deployCalls[i].job_variables.image = ImageRef

C2_Witness == Len(deployCalls) = 1 /\ pc \in {"end", "error"}

(***************************************************************************)
(* C3 (as stated): every deployment-registration event is preceded in the  *)
(* same run by console output of the flow.                                 *)
(***************************************************************************)
C3_OutputBeforeDeploy == deployCalls # <<>> => console # <<>>

(***************************************************************************)
(* C3 (amended): in a run of the script the deployment is triggered        *)
(* without the flow having run: when the deployment call is made, and for  *)
(* the rest of that run, nothing has been printed and hello_flow has not   *)
(* been invoked.                                                           *)
(***************************************************************************)
C3_DeployWithoutOutput == deployCalls # <<>> => (console = <<>> /\ runs = 0)

C3_Witness == deployCalls # <<>> /\ pc = "end" /\ console = <<>>

(***************************************************************************)
(* C4: within one hello_flow invocation at most one task is submitted and  *)
(* at most one subflow call is made (exactly one of each once it is done); *)
(* the subflow is started only after the task's result has resolved and    *)
(* the "Task result" line was printed; the "Subflow result" line is never  *)
(* printed before the "Task result" line.                                  *)
(***************************************************************************)
C4_TaskThenSubflow ==
    /\ submits <= 1
    /\ subflows <= 1
    /\ fpc \in {"l71", "l72", "done"} =>
          /\ submits = 1
          /\ futState = "COMPLETED"
          /\ \E j \in DOMAIN FlowOut : FlowOut[j] = "Task result: yes"
    /\ subflows = 1 => fpc \in {"l72", "done"}
    /\ fpc = "l71" => subflows = 0
    /\ fpc = "done" => subflows = 1
    /\ \A i \in DOMAIN FlowOut :
          FlowOut[i] = "Subflow result: no" =>
              \E j \in 1..(i - 1) : FlowOut[j] = "Task result: yes"

C4_Witness == fpc = "done" /\ submits = 1 /\ subflows = 1 /\ runs = 1

(***************************************************************************)
(* C5: every execution of the task yes, by a direct call in any state or   *)
(* by the platform's task runner, returns exactly "yes", prints nothing    *)
(* and changes no other state.                                             *)
(***************************************************************************)
C5_YesReturnsYes ==
    [][ /\ yesCalls' # yesCalls =>
              /\ yesRet' = "yes"
              /\ UNCHANGED <<modvars, flowvars, raised, console, noCalls, noRet>>
        /\ (futState = "PENDING" /\ futState' = "COMPLETED") =>
              /\ futValue' = "yes"
              /\ yesRet' = "yes"
              /\ UNCHANGED <<modvars, raised, console, noCalls, noRet, fpc>>
      ]_vars

C5_Witness == yesCalls >= 2 /\ yesRet = "yes" /\ fpc = "l68" /\ futState = "PENDING"

(***************************************************************************)
(* C6: every execution of the subflow no, by a direct call in any state or *)
(* from hello_flow, returns exactly "no" and prints nothing.               *)
(***************************************************************************)
C6_NoReturnsNo ==
    [][ /\ noCalls' # noCalls =>
              /\ noRet' = "no"
              /\ UNCHANGED <<modvars, flowvars, raised, console, yesCalls, yesRet>>
        /\ subflows' = subflows + 1 =>
              /\ result_no' = "no"
              /\ console' = console
      ]_vars

C6_Witness == noCalls >= 2 /\ noRet = "no" /\ result_no = "no" /\ fpc = "l72"

(***************************************************************************)
(* C7: at most one deployment call is ever made; a module that is merely   *)
(* imported makes none; a script run that has passed the deployment call   *)
(* (returned or raised) has made exactly one.                              *)
(***************************************************************************)
C7_SingleGuardedDeploy ==
    /\ Len(deployCalls) <= 1
    /\ modname # "__main__" => deployCalls = <<>>
    /\ (modname = "__main__" /\ pc \in {"end", "error"}) => Len(deployCalls) = 1
    /\ pc \in {"deploy", "error"} => modname = "__main__"

C7_Witness == modname = "__main__" /\ pc = "end" /\ Len(deployCalls) = 1

(***************************************************************************)
(* C8: a platform failure is not caught.  If task submission or the wait   *)
(* for the task's result fails, hello_flow ends in exactly that error,     *)
(* having printed only the greeting, without a subflow call and without    *)
(* returning a value.  If the deployment call fails, exactly that error    *)
(* reaches the script's caller and the call is not repeated.               *)
(***************************************************************************)
C8_FailuresPropagate ==
    /\ fpc = "failed" =>
          /\ failedAt \in {"submit", "result"}
          /\ flowExc \in PlatformErrors
          /\ flowExc = raised
          /\ FlowOut = <<Greeting>>
          /\ subflows = 0
          /\ ret = "unset"
    /\ futState = "FAILED" => fpc \in {"l68", "failed"}
    /\ (fpc = "failed" /\ failedAt = "submit") => futState = "NONE"
    /\ pc = "error" =>
          /\ exc \in PlatformErrors
          /\ exc = raised
          /\ Len(deployCalls) = 1
    /\ (raised # "none" /\ modname = "__main__") => pc = "error"

C8_Witness == fpc = "failed" /\ failedAt = "result" /\ flowExc = "Unauthorized"

(***************************************************************************)
(* C9: a script run never runs hello_flow, yes or no locally: throughout   *)
(* the run, before and after the deployment call, no flow is invoked, no   *)
(* task is submitted, no subflow is called and nothing is printed.         *)
(***************************************************************************)
C9_ScriptRunsNothingLocally ==
    modname = "__main__" =>
        /\ runs = 0
        /\ fpc = "idle"
        /\ submits = 0
        /\ subflows = 0
        /\ futState = "NONE"
        /\ yesCalls = 0
        /\ noCalls = 0
        /\ console = <<>>

C9_Witness == modname = "__main__" /\ Len(deployCalls) = 1 /\ pc = "error"

====
